---- MODULE Spec2Model ----
(***************************************************************************)
(* Model of the staged generation orchestrator (generateVirtualStaging,    *)
(* driven by App.handleGenerate) and of the model capability prober        *)
(* (listAvailableModels, testImageGenerationModel,                         *)
(* testAllModelsForImageGeneration, driven by App.handleTestAllModels).    *)
(*                                                                         *)
(* The environment is the single-threaded JavaScript event loop: every     *)
(* action below is one synchronous stretch of code, from the resumption    *)
(* of an await (or an event handler's entry) to the next await.            *)
(***************************************************************************)
EXTENDS Integers, Sequences, FiniteSets, TLC

(***************************************************************************)
(* Bounds of the model.                                                    *)
(***************************************************************************)
MaxParts == 2
MaxCandidates == 2
MaxModels == 2
MaxClock == 2
MaxChecks == 2

(***************************************************************************)
(* Values.                                                                 *)
(***************************************************************************)
\* JavaScript null / undefined for string-valued state.
Null == "null"
Undefined == "undefined"

\* File | null : the App's two image slots.
NoFile == [present |-> FALSE, type |-> "", bytes |-> ""]
\* The files the user may pick in the two uploaders.
FloorPlanFiles == { [present |-> TRUE, type |-> "image/png", bytes |-> "plan-bytes"] }
ReferenceFiles == { [present |-> TRUE, type |-> "image/jpeg", bytes |-> "photo-bytes"] }

\* Thrown / rejected values: an Error with a message, or some other value.
NoError == [kind |-> "none", message |-> ""]
MkError(msg) == [kind |-> "Error", message |-> msg]
TransportErrors ==
  { MkError("fetch failed"),
    MkError("429 quota exceeded"),
    MkError(""),
    [kind |-> "other", message |-> ""] }

\* Content parts: {text} | {inlineData: {data, mimeType}}.
TextPart(t) == [kind |-> "text", text |-> t, mimeType |-> "", data |-> ""]
InlinePart(m, d) == [kind |-> "inline", text |-> "", mimeType |-> m, data |-> d]
NoPart == [kind |-> "none", text |-> "", mimeType |-> "", data |-> ""]

\* What the backend may put in a response.
ResponseParts ==
  { TextPart("Here is your render."),
    InlinePart("image/png", "WA=="),
    InlinePart("image/jpeg", "WQ==") }
PartSeqs == UNION { [1..n -> ResponseParts] : n \in 0..MaxParts }
\* A candidate whose content (or content.parts) is absent has hasParts FALSE.
Candidates ==
  { [hasParts |-> FALSE, parts |-> <<>>] } \cup
  { [hasParts |-> TRUE, parts |-> ps] : ps \in PartSeqs }
\* Candidates after the first one, which the program never reads.
OtherCandidates ==
  { [hasParts |-> FALSE, parts |-> <<>>],
    [hasParts |-> TRUE, parts |-> <<InlinePart("image/jpeg", "WQ==")>>] }
CandidateSeqs ==
  { <<>> } \cup
  { <<c>> \o tail : c \in Candidates,
                    tail \in UNION { [1..n -> OtherCandidates] : n \in 0..(MaxCandidates - 1) } }
\* A response whose candidates field is absent has hasCandidates FALSE.
Responses ==
  { [hasCandidates |-> FALSE, candidates |-> <<>>] } \cup
  { [hasCandidates |-> TRUE, candidates |-> cs] : cs \in CandidateSeqs }
NoResponse == [hasCandidates |-> FALSE, candidates |-> <<>>]

\* response.text of the two text stages.
ResponseTexts == { Undefined, "", "minimalist, oak floors", "2-bedroom, L-shaped" }

(***************************************************************************)
(* Program constants.                                                      *)
(***************************************************************************)
model == "gemini-3-pro-image-preview"
STYLE_EXTRACTION_PROMPT == "STEP 1: HYPER-SPECIFIC STYLE EXTRACTION"
FLOOR_PLAN_ANALYSIS_PROMPT == "STEP 2: FLOOR PLAN ANALYSIS"

getFinalPromptTemplate_Swapped(styleDescription, floorPlanAnalysis) ==
  "<style_guide>" \o floorPlanAnalysis \o "</style_guide><architectural_plan>"
    \o styleDescription \o "</architectural_plan>"
getFinalPromptTemplate(styleDescription, floorPlanAnalysis) ==
  "<style_guide>" \o styleDescription \o "</style_guide><architectural_plan>"
    \o floorPlanAnalysis \o "</architectural_plan>"

MsgInputMissing == "Please upload both a floor plan and a reference image."
MsgStyleExtractionFailed == "Could not extract style from reference image."
MsgPlanAnalysisFailed == "Could not analyze the floor plan image."
MsgNoImageProduced == "No image was generated. The model may have refused the request."
MsgUnknown == "An unknown error occurred."
MsgEncodeFailed == "Failed to read file."

(***************************************************************************)
(* Pure helpers of the orchestrator.                                       *)
(***************************************************************************)
\* fileToBase64: the transport encoding of a file's bytes.
fileToBase64(file) ==
  CASE file.bytes = "plan-bytes" -> "cGxhbg=="
    [] file.bytes = "photo-bytes" -> "cGhvdG8="
    [] OTHER -> ""

\* fileToGenerativePart, once fileToBase64 has resolved.
fileToGenerativePart(file) == InlinePart(file.type, fileToBase64(file))

\* handleGenerate's precondition test.
InputMissing_OnlyFloorPlan(fp, ref) == ~fp.present
InputMissing(fp, ref) == ~fp.present \/ ~ref.present

\* The stage announced at the start of step n.
StageOf_Swapped(n) ==
  CASE n = 1 -> "analyzingStyle" [] n = 2 -> "generatingImage" [] OTHER -> "analyzingPlan"
StageOf(n) ==
  CASE n = 1 -> "analyzingStyle" [] n = 2 -> "analyzingPlan" [] OTHER -> "generatingImage"

\* !text : JavaScript falsiness of string | undefined.
IsFalsy_OnlyUndefined(t) == t = Undefined
IsFalsy(t) == t = Undefined \/ t = ""

\* finalResponse.candidates?.[0]?.content?.parts || []
ContentParts(resp) ==
  IF resp.hasCandidates /\ Len(resp.candidates) >= 1 /\ resp.candidates[1].hasParts
    THEN resp.candidates[1].parts
    ELSE <<>>

\* if (part.inlineData)
HasInlineData_Any(part) == TRUE
HasInlineData(part) == part.kind = "inline"

\* The for loop of lines 71-78: index of the part the loop returns on, 0 if
\* the loop runs to its end.
RECURSIVE ScanFrom(_, _)
ScanFrom(parts, i) ==
  IF i > Len(parts) THEN 0
  ELSE IF HasInlineData(parts[i]) THEN i
  ELSE ScanFrom(parts, i + 1)

FirstInline_FirstPartOnly(parts) ==
  IF Len(parts) >= 1 /\ HasInlineData(parts[1]) THEN 1 ELSE 0
FirstInline(parts) == ScanFrom(parts, 1)

\* `data:${mimeType};base64,${base64Data}`
DataUri_NoMime(mimeType, base64Data) == "data:;base64," \o base64Data
DataUri(mimeType, base64Data) == "data:" \o mimeType \o ";base64," \o base64Data

\* A throw inside the async function: the promise it returned is rejected
\* with the thrown value itself.
Rejected_Wrapped(err) == [state |-> "rejected", reason |-> MkError("Generation failed.")]
Rejected(err) == [state |-> "rejected", reason |-> err]
Fulfilled == [state |-> "fulfilled", reason |-> NoError]
Pending == [state |-> "pending", reason |-> NoError]
NoPromise == [state |-> "none", reason |-> NoError]

\* err instanceof Error ? err.message : 'An unknown error occurred.'
ErrorText(err) == IF err.kind = "Error" THEN err.message ELSE MsgUnknown

\* Where control goes after a generateContent call is issued: the code
\* awaits the call.
AfterIssue_NoAwait(waitPc, issuePc) == issuePc
AfterIssue(waitPc, issuePc) == waitPc

(***************************************************************************)
(* The prober: values and pure helpers.                                    *)
(***************************************************************************)
\* Entries of ai.models.list(): a name and supportedGenerationMethods
\* (hasMethods FALSE when the entry carries no such field).
Descriptor(n, m) == [name |-> n, hasMethods |-> TRUE, methods |-> m]
ModelDescriptors ==
  { Descriptor("models/gemini-image", {"generateContent", "countTokens"}),
    Descriptor("models/gemini-pro", {"generateContent"}),
    Descriptor("models/embedding", {"embedContent"}),
    Descriptor("Error-corrected-tuned", {"generateContent"}),
    [name |-> "models/legacy", hasMethods |-> FALSE, methods |-> {}] }
Listings == UNION { [1..n -> ModelDescriptors] : n \in 0..MaxModels }

\* Responses the backend may give to the probe prompt.
ProbeResponses ==
  { [hasCandidates |-> FALSE, candidates |-> <<>>],
    [hasCandidates |-> TRUE, candidates |-> <<[hasParts |-> FALSE, parts |-> <<>>]>>],
    [hasCandidates |-> TRUE, candidates |->
       <<[hasParts |-> TRUE, parts |-> <<TextPart("A blue circle.")>>]>>],
    [hasCandidates |-> TRUE, candidates |->
       <<[hasParts |-> TRUE,
          parts |-> <<TextPart("A blue circle."), InlinePart("image/png", "WA==")>>]>>] }

testPrompt == "Generate a simple geometric shape: a blue circle on a white background."

MsgNoModels == "No models supporting 'generateContent' found for your API key."
MsgListUnknown == "An unknown error occurred while listing models."
MsgNotIterable == "Cannot read properties of undefined (reading 'includes')"
MsgNoImageInResponse == "Model responded but did not generate an image"

\* s.startsWith(p)
StartsWith(s, p) == Len(s) >= Len(p) /\ SubSeq(s, 1, Len(p)) = p

\* The loop of lines 87-92: the names pushed, in order.
CollectNames_Unfiltered(listing, i) ==
  [k \in 1..(Len(listing) - i + 1) |-> listing[i + k - 1].name]
RECURSIVE CollectNames(_, _)
CollectNames(listing, i) ==
  IF i > Len(listing) THEN <<>>
  ELSE IF "generateContent" \in listing[i].methods
         THEN <<listing[i].name>> \o CollectNames(listing, i + 1)
         ELSE CollectNames(listing, i + 1)

\* model.supportedGenerationMethods.includes(...) throws on an entry
\* without the field.
FilterThrows(listing) == \E i \in 1..Len(listing) : ~listing[i].hasMethods

\* The catch block of listAvailableModels.
ListingFailure_Empty(err) == <<>>
ListingFailure(err) ==
  IF err.kind = "Error" THEN << "Error listing models: " \o err.message >>
  ELSE << MsgListUnknown >>

\* listAvailableModels, given that ai.models.list() resolved with listing.
ListResolved_NoSentinel(listing) ==
  IF FilterThrows(listing) THEN ListingFailure(MkError(MsgNotIterable))
  ELSE CollectNames(listing, 1)
ListResolved(listing) ==
  IF FilterThrows(listing) THEN ListingFailure(MkError(MsgNotIterable))
  ELSE IF CollectNames(listing, 1) = <<>> THEN << MsgNoModels >>
  ELSE CollectNames(listing, 1)

\* models.filter(m => !m.startsWith('Error') && !m.startsWith('No models'))
ValidModels(models) ==
  SelectSeq(models, LAMBDA m : ~StartsWith(m, "Error") /\ ~StartsWith(m, "No models"))

\* response.candidates?.[0]?.content?.parts?.some(part => part.inlineData !== undefined)
HasImage_AnyParts(resp) ==
  /\ resp.hasCandidates /\ Len(resp.candidates) >= 1 /\ resp.candidates[1].hasParts
  /\ Len(resp.candidates[1].parts) >= 1
HasImage(resp) ==
  /\ resp.hasCandidates /\ Len(resp.candidates) >= 1 /\ resp.candidates[1].hasParts
  /\ \E i \in 1..Len(resp.candidates[1].parts) : resp.candidates[1].parts[i].kind = "inline"

\* Date.now() - startTime
Elapsed_Swapped(now, start) == start - now
Elapsed(now, start) == now - start

\* Where the for loop of testAll stands after a probe that failed: the
\* failure was turned into a result, the loop goes on with the next model.
AfterProbeFailure_Abort(i, n) == n + 1
AfterProbeFailure(i, n) == i + 1

\* The ModelTestResult returned by testImageGenerationModel.
ProbeSucceeded_Timed(modelName, resp, responseTime) ==
  IF HasImage(resp) /\ responseTime = 0
    THEN [modelName |-> modelName, supportsImageGeneration |-> TRUE,
          error |-> Undefined, responseTime |-> responseTime]
    ELSE [modelName |-> modelName, supportsImageGeneration |-> FALSE,
          error |-> MsgNoImageInResponse, responseTime |-> responseTime]
ProbeSucceeded(modelName, resp, responseTime) ==
  IF HasImage(resp)
    THEN [modelName |-> modelName, supportsImageGeneration |-> TRUE,
          error |-> Undefined, responseTime |-> responseTime]
    ELSE [modelName |-> modelName, supportsImageGeneration |-> FALSE,
          error |-> MsgNoImageInResponse, responseTime |-> responseTime]

ProbeFailed_NoMessage(modelName, err, responseTime) ==
  [modelName |-> modelName, supportsImageGeneration |-> FALSE,
   error |-> Undefined, responseTime |-> responseTime]
ProbeFailed(modelName, err, responseTime) ==
  [modelName |-> modelName, supportsImageGeneration |-> FALSE,
   error |-> (IF err.kind = "Error" THEN err.message ELSE "Unknown error"),
   responseTime |-> responseTime]

\* modelTestResults.find(r => r.supportsImageGeneration): the index of the
\* first such entry from i on, 0 when there is none.
FindSupporting_Fastest(rs, i) ==
  LET S == { k \in i..Len(rs) : rs[k].supportsImageGeneration }
  IN IF S = {} THEN 0
     ELSE CHOOSE k \in S : \A l \in S :
            \/ rs[k].responseTime < rs[l].responseTime
            \/ rs[k].responseTime = rs[l].responseTime /\ k <= l
RECURSIVE FindSupporting(_, _)
FindSupporting(rs, i) ==
  IF i > Len(rs) THEN 0
  ELSE IF rs[i].supportsImageGeneration THEN i
  ELSE FindSupporting(rs, i + 1)

\* The "best model" sentence of the results panel is rendered.
BestModelShown(mtr) ==
  /\ mtr.set /\ Len(mtr.value) > 0
  /\ \E i \in 1..Len(mtr.value) : mtr.value[i].supportsImageGeneration

\* modelTestResults.find(...)?.modelName || 'N/A'
BestModelName(mtr) ==
  LET i == FindSupporting(mtr.value, 1)
  IN IF i = 0 \/ mtr.value[i].modelName = "" THEN "N/A" ELSE mtr.value[i].modelName

(***************************************************************************)
(* State.                                                                  *)
(***************************************************************************)
VARIABLES
  \* App component state (useState)
  floorPlanImage, referenceImage, generatedImage, loadingStep, error,
  \* handleGenerate: "idle" | "awaiting" (suspended on generateVirtualStaging)
  hpc,
  \* generateVirtualStaging: arguments, locals, position, returned promise
  floorPlanFile, referenceImageFile,
  referenceImagePart, floorPlanPart, styleDescription, floorPlanAnalysis,
  finalResponse, gpc, genPromise,
  \* Generation Client: calls issued by the current run, calls in flight
  calls, inflight,
  \* observation of the current run: ordered log of what the consumer and
  \* the Generation Client double saw, the value thrown at the failing
  \* step, the value handleGenerate caught, and the run's outcome
  runLog, raised, failedAt, caught, outcome,
  \* App component state of the model tester
  isTestingModels, modelTestResults, modelError,
  \* testAllModelsForImageGeneration / testImageGenerationModel: position,
  \* locals (models, validModels, results, the loop's position in
  \* validModels, startTime) and the clock read by Date.now()
  tpc, models, validModels, results, probeIdx, startTime, clock,
  \* Generation Client: the requests of the current sweep, in order, and
  \* what each probe call was answered with
  probeCalls, probeLog,
  \* what ai.models.list() was answered with in the current sweep
  listed,
  \* App component state of the model lister, the handleCheckModels
  \* invocations suspended on listAvailableModels, and for the invocation
  \* that returned last: what ai.models.list() did and what
  \* listAvailableModels returned
  availableModels, checksPending, checkListed, checkReturned,
  \* one response handed to both image tests: the response, what
  \* testImageGenerationModel returned for it, and how the tail of
  \* generateVirtualStaging ended on it (each empty until computed)
  response, probed, scanned

appVars == <<floorPlanImage, referenceImage, generatedImage, loadingStep, error>>
runVars == <<floorPlanFile, referenceImageFile, referenceImagePart, floorPlanPart,
             styleDescription, floorPlanAnalysis, finalResponse, gpc, genPromise>>
obsVars == <<runLog, raised, failedAt, caught, outcome>>
genVars == <<appVars, hpc, runVars, calls, obsVars>>
probeVars == <<isTestingModels, modelTestResults, modelError, tpc, models, validModels,
               results, probeIdx, startTime, clock, probeCalls, probeLog, listed>>
checkVars == <<availableModels, checksPending, checkListed, checkReturned>>
imageTestVars == <<response, probed, scanned>>
vars == <<genVars, inflight, probeVars, checkVars, imageTestVars>>

\* Answers of ai.models.list().
NotListed == [how |-> "none", listing |-> <<>>, reason |-> NoError]
ListedOk(listing) == [how |-> "resolved", listing |-> listing, reason |-> NoError]
ListedErr(err) == [how |-> "rejected", listing |-> <<>>, reason |-> err]

\* string[] | null
NoModelList == [set |-> FALSE, value |-> <<>>]
SomeModels(ms) == [set |-> TRUE, value |-> ms]

\* ModelTestResult[] | null
NoResults_EmptyList == [set |-> TRUE, value |-> <<>>]
NoResults == [set |-> FALSE, value |-> <<>>]
SomeResults(rs) == [set |-> TRUE, value |-> rs]

\* Log entries: a stage value passed to setLoadingStep (by the orchestrator
\* or by handleGenerate), the call of step n issued / resolved / rejected,
\* and a string passed to onResult.
StageEv(who, step) == [ev |-> "stage", by |-> who, arg |-> step]
StepName(n) == CASE n = 1 -> "1" [] n = 2 -> "2" [] OTHER -> "3"
IssueEv(n) == [ev |-> "issue", by |-> "orchestrator", arg |-> StepName(n)]
ResolveEv(n) == [ev |-> "resolve", by |-> "client", arg |-> StepName(n)]
RejectEv(n) == [ev |-> "reject", by |-> "client", arg |-> StepName(n)]
ResultEv(uri) == [ev |-> "result", by |-> "orchestrator", arg |-> uri]

\* A generateContent request of the run: { model, contents: { parts } }.
Call_StylePromptAgain(n, parts) ==
  [stage |-> n, model |-> model, parts |-> <<TextPart(STYLE_EXTRACTION_PROMPT), parts[2]>>]
Call(n, parts) == [stage |-> n, model |-> model, parts |-> parts]
RunCallId_AsSweep(n) == [owner |-> "sweep", id |-> n]
RunCallId(n) == [owner |-> "run", id |-> n]

\* setError(null) and setGeneratedImage(null) at the start of a run: the
\* new value of the state, given the one left by the previous run.
ClearedError_Kept(previous) == previous
ClearedError(previous) == Null
ClearedImage_Kept(previous) == previous
ClearedImage(previous) == Null

\* const isLoading = loadingStep !== 'idle'
isLoading_Never == FALSE
isLoading == loadingStep # "idle"

\* The promise handleGenerate awaits has settled and its continuation, a
\* microtask, has not run yet: no click or upload comes in between.
ContinuationDue == hpc = "awaiting" /\ genPromise.state \in {"fulfilled", "rejected"}

ProgramInit ==
  /\ floorPlanImage = NoFile /\ referenceImage = NoFile
  /\ generatedImage = Null /\ loadingStep = "idle" /\ error = Null
  /\ hpc = "idle"
  /\ floorPlanFile = NoFile /\ referenceImageFile = NoFile
  /\ referenceImagePart = NoPart /\ floorPlanPart = NoPart
  /\ styleDescription = Undefined /\ floorPlanAnalysis = Undefined
  /\ finalResponse = NoResponse /\ gpc = "none" /\ genPromise = NoPromise
  /\ calls = <<>> /\ inflight = {}
  /\ runLog = <<>> /\ raised = NoError /\ failedAt = "none"
  /\ caught = NoError /\ outcome = "none"
  /\ isTestingModels = FALSE /\ modelTestResults = NoResults /\ modelError = Null
  /\ tpc = "idle" /\ models = <<>> /\ validModels = <<>> /\ results = <<>>
  /\ probeIdx = 1 /\ startTime = 0 /\ clock = 0
  /\ probeCalls = <<>> /\ probeLog = <<>> /\ listed = NotListed
  /\ availableModels = NoModelList /\ checksPending = 0
  /\ checkListed = NotListed /\ checkReturned = <<>>

Init ==
  /\ ProgramInit
  /\ response = NoResponse /\ probed = <<>> /\ scanned = <<>>

(***************************************************************************)
(* The uploaders (ImageUploader.handleFileChange -> setFloorPlanImage /    *)
(* setReferenceImage); both are disabled while isLoading.                  *)
(***************************************************************************)
UploadFloorPlan ==
  /\ ~isLoading /\ ~ContinuationDue
  /\ \E f \in FloorPlanFiles : floorPlanImage' = f
  /\ UNCHANGED <<probeVars, checkVars, imageTestVars>>
  /\ UNCHANGED <<referenceImage, generatedImage, loadingStep, error, hpc,
                 runVars, calls, inflight, obsVars>>

UploadReference ==
  /\ ~isLoading /\ ~ContinuationDue
  /\ \E f \in ReferenceFiles : referenceImage' = f
  /\ UNCHANGED <<probeVars, checkVars, imageTestVars>>
  /\ UNCHANGED <<floorPlanImage, generatedImage, loadingStep, error, hpc,
                 runVars, calls, inflight, obsVars>>

(***************************************************************************)
(* handleGenerate, from its entry to its await: the input check, the       *)
(* clearing of the previous outcome, and generateVirtualStaging up to its  *)
(* first await (the encoding of the reference image).  The Generate       *)
(* button is disabled while isLoading; it is also disabled while an image  *)
(* is missing, but the handler makes its own check of the images and is    *)
(* modelled as callable without them.                                      *)
(***************************************************************************)
HandleGenerate ==
  /\ ~isLoading /\ ~ContinuationDue
  /\ calls' = <<>> /\ raised' = NoError /\ failedAt' = "none" /\ caught' = NoError
  /\ UNCHANGED <<probeVars, checkVars, imageTestVars>>
  /\ IF InputMissing(floorPlanImage, referenceImage)
       THEN /\ error' = MsgInputMissing
            /\ outcome' = "inputMissing"
            /\ runLog' = <<>>
            /\ UNCHANGED <<floorPlanImage, referenceImage, generatedImage,
                           loadingStep, hpc, runVars, inflight>>
       ELSE /\ error' = ClearedError(error)
            /\ generatedImage' = ClearedImage(generatedImage)
            /\ floorPlanFile' = floorPlanImage
            /\ referenceImageFile' = referenceImage
            /\ loadingStep' = StageOf(1)
            /\ runLog' = <<StageEv("orchestrator", StageOf(1))>>
            /\ referenceImagePart' = NoPart /\ floorPlanPart' = NoPart
            /\ styleDescription' = Undefined /\ floorPlanAnalysis' = Undefined
            /\ finalResponse' = NoResponse
            /\ gpc' = "s1_encode"
            /\ genPromise' = Pending
            /\ hpc' = "awaiting"
            /\ outcome' = "running"
            /\ UNCHANGED <<floorPlanImage, referenceImage, inflight>>

\* The common tail of every throw in generateVirtualStaging.
Throw_Swallowed(err, at) ==
  /\ genPromise' = genPromise
  /\ raised' = err
  /\ failedAt' = at
  /\ gpc' = "settled"
Throw(err, at) ==
  /\ genPromise' = Rejected(err)
  /\ raised' = err
  /\ failedAt' = at
  /\ gpc' = "settled"

(***************************************************************************)
(* Step 1: the reference image is encoded; the style call is issued.       *)
(***************************************************************************)
EncodeReferenceResolve ==
  /\ gpc = "s1_encode" /\ referenceImageFile.present
  /\ referenceImagePart' = fileToGenerativePart(referenceImageFile)
  /\ calls' = Append(calls, Call(1, <<TextPart(STYLE_EXTRACTION_PROMPT), referenceImagePart'>>))
  /\ inflight' = inflight \cup {RunCallId(Len(calls'))}
  /\ runLog' = Append(runLog, IssueEv(1))
  /\ gpc' = "s1_call"
  /\ UNCHANGED <<probeVars, checkVars, imageTestVars>>
  /\ UNCHANGED <<appVars, hpc, floorPlanFile, referenceImageFile, floorPlanPart,
                 styleDescription, floorPlanAnalysis, finalResponse, genPromise,
                 raised, failedAt, caught, outcome>>

\* The encoder rejects (always so for a missing file: file.type of null).
EncodeReject ==
  /\ gpc \in {"s1_encode", "s2_encode"}
  /\ Throw(MkError(MsgEncodeFailed), gpc)
  /\ UNCHANGED <<probeVars, checkVars, imageTestVars>>
  /\ UNCHANGED <<appVars, hpc, floorPlanFile, referenceImageFile, referenceImagePart,
                 floorPlanPart, styleDescription, floorPlanAnalysis, finalResponse,
                 calls, inflight, runLog, caught, outcome>>

\* The style call resolves with response.text = t.
Stage1Resolve ==
  /\ gpc = "s1_call" /\ RunCallId(Len(calls)) \in inflight
  /\ \E t \in ResponseTexts :
       /\ styleDescription' = t
       /\ inflight' = inflight \ {RunCallId(Len(calls))}
       /\ IF IsFalsy(t)
            THEN /\ Throw(MkError(MsgStyleExtractionFailed), gpc)
                 /\ runLog' = Append(runLog, ResolveEv(1))
                 /\ UNCHANGED loadingStep
            ELSE /\ loadingStep' = StageOf(2)
                 /\ runLog' = runLog \o <<ResolveEv(1), StageEv("orchestrator", StageOf(2))>>
                 /\ gpc' = "s2_encode"
                 /\ UNCHANGED <<genPromise, raised, failedAt>>
  /\ UNCHANGED <<probeVars, checkVars, imageTestVars>>
  /\ UNCHANGED <<floorPlanImage, referenceImage, generatedImage, error, hpc,
                 floorPlanFile, referenceImageFile, referenceImagePart, floorPlanPart,
                 floorPlanAnalysis, finalResponse, calls, caught, outcome>>

(***************************************************************************)
(* Step 2: the floor plan is encoded; the analysis call is issued.         *)
(***************************************************************************)
EncodeFloorPlanResolve ==
  /\ gpc = "s2_encode" /\ floorPlanFile.present
  /\ floorPlanPart' = fileToGenerativePart(floorPlanFile)
  /\ calls' = Append(calls, Call(2, <<TextPart(FLOOR_PLAN_ANALYSIS_PROMPT), floorPlanPart'>>))
  /\ inflight' = inflight \cup {RunCallId(Len(calls'))}
  /\ runLog' = Append(runLog, IssueEv(2))
  /\ gpc' = "s2_call"
  /\ UNCHANGED <<probeVars, checkVars, imageTestVars>>
  /\ UNCHANGED <<appVars, hpc, floorPlanFile, referenceImageFile, referenceImagePart,
                 styleDescription, floorPlanAnalysis, finalResponse, genPromise,
                 raised, failedAt, caught, outcome>>

\* The analysis call resolves with response.text = t; on a usable text
\* step 3 starts and its call is issued without an intervening await.
Stage2Resolve ==
  /\ gpc = "s2_call" /\ RunCallId(Len(calls)) \in inflight
  /\ \E t \in ResponseTexts :
       /\ floorPlanAnalysis' = t
       /\ IF IsFalsy(t)
            THEN /\ Throw(MkError(MsgPlanAnalysisFailed), gpc)
                 /\ inflight' = inflight \ {RunCallId(Len(calls))}
                 /\ runLog' = Append(runLog, ResolveEv(2))
                 /\ UNCHANGED <<loadingStep, calls>>
            ELSE /\ loadingStep' = StageOf(3)
                 /\ calls' = Append(calls,
                      Call(3, <<floorPlanPart,
                                TextPart(getFinalPromptTemplate(styleDescription, t))>>))
                 /\ inflight' = (inflight \ {RunCallId(Len(calls))})
                                  \cup {RunCallId(Len(calls'))}
                 /\ runLog' = runLog \o <<ResolveEv(2), StageEv("orchestrator", StageOf(3)),
                                          IssueEv(3)>>
                 /\ gpc' = "s3_call"
                 /\ UNCHANGED <<genPromise, raised, failedAt>>
  /\ UNCHANGED <<probeVars, checkVars, imageTestVars>>
  /\ UNCHANGED <<floorPlanImage, referenceImage, generatedImage, error, hpc,
                 floorPlanFile, referenceImageFile, referenceImagePart, floorPlanPart,
                 styleDescription, finalResponse, caught, outcome>>

(***************************************************************************)
(* Step 3: the image call resolves; the parts of the first candidate are   *)
(* scanned; onResult (handleGenerate's arrow function: setGeneratedImage,  *)
(* setLoadingStep('idle')) runs on the first inline part.                  *)
(***************************************************************************)
Stage3Resolve ==
  /\ gpc = "s3_call" /\ RunCallId(Len(calls)) \in inflight
  /\ \E resp \in Responses :
       LET parts == ContentParts(resp)
           i == FirstInline(parts)
       IN /\ finalResponse' = resp
          /\ inflight' = inflight \ {RunCallId(Len(calls))}
          /\ IF i > 0
               THEN LET uri == DataUri(parts[i].mimeType, parts[i].data)
                    IN /\ generatedImage' = uri
                       /\ loadingStep' = "idle"
                       /\ runLog' = runLog \o <<ResolveEv(3), ResultEv(uri),
                                                StageEv("app", "idle")>>
                       /\ genPromise' = Fulfilled
                       /\ gpc' = "settled"
                       /\ UNCHANGED <<raised, failedAt>>
               ELSE /\ Throw(MkError(MsgNoImageProduced), gpc)
                    /\ runLog' = Append(runLog, ResolveEv(3))
                    /\ UNCHANGED <<generatedImage, loadingStep>>
  /\ UNCHANGED <<probeVars, checkVars, imageTestVars>>
  /\ UNCHANGED <<floorPlanImage, referenceImage, error, hpc,
                 floorPlanFile, referenceImageFile, referenceImagePart, floorPlanPart,
                 styleDescription, floorPlanAnalysis, calls, caught, outcome>>

\* Any of the three calls rejects (network, authentication, quota).
CallReject ==
  /\ gpc \in {"s1_call", "s2_call", "s3_call"} /\ RunCallId(Len(calls)) \in inflight
  /\ \E err \in TransportErrors : Throw(err, gpc)
  /\ inflight' = inflight \ {RunCallId(Len(calls))}
  /\ runLog' = Append(runLog, RejectEv(calls[Len(calls)].stage))
  /\ UNCHANGED <<probeVars, checkVars, imageTestVars>>
  /\ UNCHANGED <<appVars, hpc, floorPlanFile, referenceImageFile, referenceImagePart,
                 floorPlanPart, styleDescription, floorPlanAnalysis, finalResponse,
                 calls, caught, outcome>>

(***************************************************************************)
(* handleGenerate resumes once generateVirtualStaging's promise settles:   *)
(* nothing more on fulfilment, the catch block on rejection.               *)
(***************************************************************************)
HandleGenerateResume ==
  /\ hpc = "awaiting" /\ genPromise.state \in {"fulfilled", "rejected"}
  /\ hpc' = "idle"
  /\ gpc' = "none"
  /\ IF genPromise.state = "rejected"
       THEN /\ caught' = genPromise.reason
            /\ error' = ErrorText(genPromise.reason)
            /\ loadingStep' = "idle"
            /\ runLog' = Append(runLog, StageEv("app", "idle"))
            /\ outcome' = "failure"
       ELSE /\ outcome' = "success"
            /\ UNCHANGED <<caught, error, loadingStep, runLog>>
  /\ UNCHANGED <<probeVars, checkVars, imageTestVars>>
  /\ UNCHANGED <<floorPlanImage, referenceImage, generatedImage,
                 floorPlanFile, referenceImageFile, referenceImagePart, floorPlanPart,
                 styleDescription, floorPlanAnalysis, finalResponse, genPromise,
                 calls, inflight, raised, failedAt>>

GenNext ==
  \/ UploadFloorPlan
  \/ UploadReference
  \/ HandleGenerate
  \/ EncodeReferenceResolve
  \/ EncodeFloorPlanResolve
  \/ EncodeReject
  \/ Stage1Resolve
  \/ Stage2Resolve
  \/ Stage3Resolve
  \/ CallReject
  \/ HandleGenerateResume

GenSpec == Init /\ [][GenNext]_vars

(***************************************************************************)
(* The run under the assumption that every encoding and every outbound     *)
(* call eventually resolves or rejects; continuations of settled promises  *)
(* are run by the event loop.  Clicks and uploads are the user's and       *)
(* carry no fairness.                                                      *)
(***************************************************************************)
EncodingSettles == EncodeReferenceResolve \/ EncodeFloorPlanResolve \/ EncodeReject
CallSettles == Stage1Resolve \/ Stage2Resolve \/ Stage3Resolve \/ CallReject

GenLiveSpec ==
  /\ GenSpec
  /\ WF_vars(EncodingSettles)
  /\ WF_vars(CallSettles)
  /\ WF_vars(HandleGenerateResume)

(***************************************************************************)
(* handleTestAllModels, from its entry to its await: the button is         *)
(* disabled while isTestingModels; testAllModelsForImageGeneration calls   *)
(* listAvailableModels, which issues ai.models.list().                     *)
(***************************************************************************)
SweepCallId(n) == [owner |-> "sweep", id |-> n]
ListCall == [kind |-> "list", model |-> "", parts |-> <<>>]
ProbeCall(modelName) ==
  [kind |-> "generateContent", model |-> modelName, parts |-> <<TextPart(testPrompt)>>]

\* The Test button: disabled={isTestingModels}
TestButtonDisabled_Never == FALSE
TestButtonDisabled == isTestingModels

HandleTestAllModels ==
  /\ ~TestButtonDisabled
  /\ isTestingModels' = TRUE
  /\ modelTestResults' = NoResults
  /\ modelError' = Null
  /\ models' = <<>> /\ validModels' = <<>> /\ results' = <<>> /\ probeIdx' = 1
  /\ probeCalls' = <<ListCall>>
  /\ probeLog' = <<>>
  /\ listed' = NotListed
  /\ inflight' = inflight \cup {SweepCallId(1)}
  /\ tpc' = "list_wait"
  /\ UNCHANGED <<genVars, checkVars, imageTestVars, startTime, clock>>

\* The continuation of testAll once listAvailableModels has returned ms.
AfterListing(ms) ==
  /\ models' = ms
  /\ validModels' = ValidModels(ms)
  /\ results' = <<>>
  /\ probeIdx' = 1
  /\ tpc' = IF ValidModels(ms) = <<>> THEN "return" ELSE "loop"

\* ai.models.list() resolves.
ListResolve ==
  /\ tpc = "list_wait" /\ SweepCallId(Len(probeCalls)) \in inflight
  /\ inflight' = inflight \ {SweepCallId(Len(probeCalls))}
  /\ \E listing \in Listings :
       /\ listed' = ListedOk(listing)
       /\ AfterListing(ListResolved(listing))
  /\ UNCHANGED <<genVars, checkVars, imageTestVars, isTestingModels, modelTestResults, modelError,
                 startTime, clock, probeCalls, probeLog>>

\* ai.models.list() rejects.
ListReject ==
  /\ tpc = "list_wait" /\ SweepCallId(Len(probeCalls)) \in inflight
  /\ inflight' = inflight \ {SweepCallId(Len(probeCalls))}
  /\ \E err \in TransportErrors :
       /\ listed' = ListedErr(err)
       /\ AfterListing(ListingFailure(err))
  /\ UNCHANGED <<genVars, checkVars, imageTestVars, isTestingModels, modelTestResults, modelError,
                 startTime, clock, probeCalls, probeLog>>

(***************************************************************************)
(* One turn of the for loop of testAll: testImageGenerationModel reads     *)
(* the clock and issues its generateContent call.                          *)
(***************************************************************************)
ProbeIssue ==
  /\ tpc = "loop" /\ probeIdx <= Len(validModels)
  /\ startTime' = clock
  /\ probeCalls' = Append(probeCalls, ProbeCall(validModels[probeIdx]))
  /\ inflight' = inflight \cup {SweepCallId(Len(probeCalls'))}
  /\ tpc' = AfterIssue("probe_wait", "loop")
  /\ UNCHANGED <<genVars, checkVars, imageTestVars, isTestingModels, modelTestResults, modelError, models,
                 validModels, results, probeIdx, clock, probeLog, listed>>

\* Time passes while the probe call is in flight.
Tick ==
  /\ tpc = "probe_wait" /\ clock < MaxClock
  /\ clock' = clock + 1
  /\ UNCHANGED <<genVars, checkVars, imageTestVars, inflight, isTestingModels, modelTestResults, modelError, tpc,
                 models, validModels, results, probeIdx, startTime, probeCalls, probeLog,
                 listed>>

\* The probe call resolves: the result is pushed and the loop goes on.
ProbeResolve ==
  /\ tpc = "probe_wait" /\ SweepCallId(Len(probeCalls)) \in inflight
  /\ inflight' = inflight \ {SweepCallId(Len(probeCalls))}
  /\ \E resp \in ProbeResponses :
       /\ results' = Append(results,
            ProbeSucceeded(validModels[probeIdx], resp, Elapsed(clock, startTime)))
       /\ probeLog' = Append(probeLog,
            [model |-> validModels[probeIdx], how |-> "resolved",
             response |-> resp, reason |-> NoError,
             issuedAt |-> startTime, settledAt |-> clock])
  /\ probeIdx' = probeIdx + 1
  /\ tpc' = "loop"
  /\ UNCHANGED <<genVars, checkVars, imageTestVars, isTestingModels, modelTestResults, modelError, models,
                 validModels, startTime, clock, probeCalls, listed>>

\* The probe call rejects: the catch block turns it into a result.
ProbeReject ==
  /\ tpc = "probe_wait" /\ SweepCallId(Len(probeCalls)) \in inflight
  /\ inflight' = inflight \ {SweepCallId(Len(probeCalls))}
  /\ \E err \in TransportErrors :
       /\ results' = Append(results,
            ProbeFailed(validModels[probeIdx], err, Elapsed(clock, startTime)))
       /\ probeLog' = Append(probeLog,
            [model |-> validModels[probeIdx], how |-> "rejected",
             response |-> NoResponse, reason |-> err,
             issuedAt |-> startTime, settledAt |-> clock])
  /\ probeIdx' = AfterProbeFailure(probeIdx, Len(validModels))
  /\ tpc' = "loop"
  /\ UNCHANGED <<genVars, checkVars, imageTestVars, isTestingModels, modelTestResults, modelError, models,
                 validModels, startTime, clock, probeCalls, listed>>

(***************************************************************************)
(* testAll returns (the empty sequence when no valid model was listed);    *)
(* handleTestAllModels stores the results and its finally block clears     *)
(* isTestingModels.                                                        *)
(***************************************************************************)
TestAllReturn ==
  /\ \/ tpc = "return"
     \/ tpc = "loop" /\ probeIdx > Len(validModels)
  /\ modelTestResults' = SomeResults(IF tpc = "return" THEN <<>> ELSE results)
  /\ isTestingModels' = FALSE
  /\ tpc' = "idle"
  /\ UNCHANGED <<genVars, checkVars, imageTestVars, inflight, modelError, models, validModels, results,
                 probeIdx, startTime, clock, probeCalls, probeLog, listed>>

ProbeNext ==
  \/ HandleTestAllModels
  \/ ListResolve
  \/ ListReject
  \/ ProbeIssue
  \/ Tick
  \/ ProbeResolve
  \/ ProbeReject
  \/ TestAllReturn

ProbeSpec == Init /\ [][ProbeNext]_vars

(***************************************************************************)
(* The sweep under the assumption that every outbound call eventually      *)
(* resolves or rejects; the loop and the return are the program's own      *)
(* steps.  The click and the passing of time carry no fairness.            *)
(***************************************************************************)
ListSettles == ListResolve \/ ListReject
ProbeSettles == ProbeResolve \/ ProbeReject

ProbeLiveSpec ==
  /\ ProbeSpec
  /\ WF_vars(ListSettles)
  /\ WF_vars(ProbeIssue)
  /\ WF_vars(ProbeSettles)
  /\ WF_vars(TestAllReturn)

(***************************************************************************)
(* handleCheckModels ("List Available Models").  Its button is never       *)
(* disabled: up to MaxChecks invocations may be suspended on               *)
(* listAvailableModels at once.  listAvailableModels catches every         *)
(* failure itself, so the handler's own catch block is never entered.      *)
(***************************************************************************)
\* models.some(m => m.startsWith('Error'))
HasErrorEntry(ms) == \E i \in 1..Len(ms) : StartsWith(ms[i], "Error")

\* models.join('\n')
RECURSIVE JoinLines(_)
JoinLines(ms) ==
  IF ms = <<>> THEN ""
  ELSE IF Len(ms) = 1 THEN ms[1]
  ELSE ms[1] \o "\n" \o JoinLines(Tail(ms))

HandleCheckModels ==
  /\ checksPending < MaxChecks
  /\ availableModels' = NoModelList
  /\ modelError' = Null
  /\ checksPending' = checksPending + 1
  /\ checkListed' = NotListed /\ checkReturned' = <<>>
  /\ UNCHANGED <<genVars, imageTestVars, inflight, isTestingModels, modelTestResults, tpc, models,
                 validModels, results, probeIdx, startTime, clock, probeCalls,
                 probeLog, listed>>

\* The continuation of handleCheckModels once listAvailableModels has
\* returned ms.
AfterCheck(ms) ==
  /\ checkReturned' = ms
  /\ checksPending' = checksPending - 1
  /\ IF HasErrorEntry(ms)
       THEN /\ modelError' = JoinLines(ms)
            /\ availableModels' = NoModelList
       ELSE /\ availableModels' = SomeModels(ms)
            /\ UNCHANGED modelError

\* ai.models.list() of a handleCheckModels invocation resolves.
CheckListResolve ==
  /\ checksPending > 0
  /\ \E listing \in Listings :
       /\ checkListed' = ListedOk(listing)
       /\ AfterCheck(ListResolved(listing))
  /\ UNCHANGED <<genVars, imageTestVars, inflight, isTestingModels, modelTestResults, tpc, models,
                 validModels, results, probeIdx, startTime, clock, probeCalls,
                 probeLog, listed>>

\* ai.models.list() of a handleCheckModels invocation rejects.
CheckListReject ==
  /\ checksPending > 0
  /\ \E err \in TransportErrors :
       /\ checkListed' = ListedErr(err)
       /\ AfterCheck(ListingFailure(err))
  /\ UNCHANGED <<genVars, imageTestVars, inflight, isTestingModels, modelTestResults, tpc, models,
                 validModels, results, probeIdx, startTime, clock, probeCalls,
                 probeLog, listed>>

CheckNext ==
  \/ HandleCheckModels
  \/ CheckListResolve
  \/ CheckListReject

CheckSpec == Init /\ [][CheckNext]_vars

(***************************************************************************)
(* The two image tests put to one response: hasImage of                    *)
(* testImageGenerationModel (lines 128-146) and the scan that ends         *)
(* generateVirtualStaging (lines 70-80).                                   *)
(***************************************************************************)
\* The responses generateContent may resolve with, for either caller.
AnyResponses == Responses \cup ProbeResponses
TestedNames == { "models/gemini-image", "models/gemini-pro" }

\* Lines 70-80 on a response: the data URI handed to onResult, or the
\* error thrown after the loop.
ScanOutcome(resp) ==
  LET parts == ContentParts(resp)
      i == FirstInline(parts)
  IN IF i > 0
       THEN [delivered |-> TRUE,
             result |-> DataUri(parts[i].mimeType, parts[i].data),
             thrown |-> NoError]
       ELSE [delivered |-> FALSE, result |-> "",
             thrown |-> MkError(MsgNoImageProduced)]

\* testImageGenerationModel from the resolution of its call to its return.
ProbeExamines ==
  /\ probed = <<>>
  /\ \E m \in TestedNames, t \in 0..MaxClock :
       probed' = << ProbeSucceeded(m, response, t) >>
  /\ UNCHANGED <<genVars, inflight, probeVars, checkVars, response, scanned>>

\* generateVirtualStaging from the resolution of its third call to its end.
OrchestratorScans ==
  /\ scanned = <<>>
  /\ scanned' = << ScanOutcome(response) >>
  /\ UNCHANGED <<genVars, inflight, probeVars, checkVars, response, probed>>

ImageTestInit ==
  /\ ProgramInit
  /\ response \in AnyResponses /\ probed = <<>> /\ scanned = <<>>
ImageTestNext == ProbeExamines \/ OrchestratorScans
ImageTestSpec == ImageTestInit /\ [][ImageTestNext]_vars

Next == GenNext \/ ProbeNext \/ CheckNext

Spec == Init /\ [][Next]_vars

(***************************************************************************)
(* The App with both workflows interleaved, against a sample of the        *)
(* backend's answers that keeps every branch of both workflows: absent     *)
(* and usable stage texts, responses with and without an image, empty and  *)
(* non-empty listings, failing and succeeding calls.                       *)
(***************************************************************************)
SampleEnv ==
  /\ styleDescription \in {Undefined, "minimalist, oak floors"}
  /\ floorPlanAnalysis \in {Undefined, "2-bedroom, L-shaped"}
  /\ finalResponse \in ProbeResponses
  /\ raised.message # "429 quota exceeded"
  /\ Len(models) <= 2
  /\ \A i \in 1..Len(models) :
       models[i] \in {"models/gemini-image", "models/gemini-pro", MsgNoModels,
                      "Error listing models: fetch failed"}
  /\ \A i \in 1..Len(probeLog) :
       /\ probeLog[i].reason \in {NoError, MkError("fetch failed")}
       /\ probeLog[i].response \in
            {NoResponse} \cup
            { r \in ProbeResponses : r.hasCandidates /\ r.candidates[1].hasParts }
  /\ clock <= 1
  /\ listed.reason \in {NoError, MkError("fetch failed")}
  /\ \A i \in 1..Len(listed.listing) :
       listed.listing[i] \in { Descriptor("models/gemini-image", {"generateContent", "countTokens"}),
                               Descriptor("models/embedding", {"embedContent"}) }
  /\ checksPending <= 1
  /\ Len(checkListed.listing) <= 1
  /\ checkListed.reason \in {NoError, MkError("fetch failed")}
  /\ \A i \in 1..Len(checkListed.listing) :
       checkListed.listing[i] \in { Descriptor("models/gemini-image", {"generateContent", "countTokens"}),
                                    Descriptor("models/embedding", {"embedContent"}) }

AppNext ==
  \/ UploadFloorPlan /\ SampleEnv'
  \/ UploadReference /\ SampleEnv'
  \/ HandleGenerate /\ SampleEnv'
  \/ EncodeReferenceResolve /\ SampleEnv'
  \/ EncodeFloorPlanResolve /\ SampleEnv'
  \/ EncodeReject /\ SampleEnv'
  \/ Stage1Resolve /\ SampleEnv'
  \/ Stage2Resolve /\ SampleEnv'
  \/ Stage3Resolve /\ SampleEnv'
  \/ CallReject /\ SampleEnv'
  \/ HandleGenerateResume /\ SampleEnv'
  \/ HandleTestAllModels /\ SampleEnv'
  \/ ListResolve /\ SampleEnv'
  \/ ListReject /\ SampleEnv'
  \/ ProbeIssue /\ SampleEnv'
  \/ Tick /\ SampleEnv'
  \/ ProbeResolve /\ SampleEnv'
  \/ ProbeReject /\ SampleEnv'
  \/ TestAllReturn /\ SampleEnv'
  \/ HandleCheckModels /\ SampleEnv'
  \/ CheckListResolve /\ SampleEnv'
  \/ CheckListReject /\ SampleEnv'

AppSpec == Init /\ [][AppNext]_vars


(***************************************************************************)
(* Vocabulary of the properties.                                           *)
(***************************************************************************)
IsPrefix(s, t) == Len(s) <= Len(t) /\ SubSeq(t, 1, Len(s)) = s

Args(log) == [i \in 1..Len(log) |-> log[i].arg]

\* Every stage value the consumer observed in the current run, in order.
Observed == Args(SelectSeq(runLog, LAMBDA e : e.ev = "stage"))

\* The stage values the orchestrator itself passed to the callback.
Emitted == Args(SelectSeq(runLog, LAMBDA e : e.ev = "stage" /\ e.by = "orchestrator"))

\* The strings passed to onResult.
Delivered == Args(SelectSeq(runLog, LAMBDA e : e.ev = "result"))

Happened(kind, n) == \E i \in 1..Len(runLog) : runLog[i].ev = kind /\ runLog[i].arg = n

ThreeStages == <<"analyzingStyle", "analyzingPlan", "generatingImage">>

\* Which step a request belongs to, told from its instruction text.
IsStyleCall(c) == \E i \in 1..Len(c.parts) :
  c.parts[i].kind = "text" /\ c.parts[i].text = STYLE_EXTRACTION_PROMPT
IsPlanCall(c) == \E i \in 1..Len(c.parts) :
  c.parts[i].kind = "text" /\ c.parts[i].text = FLOOR_PLAN_ANALYSIS_PROMPT
IsImageCall(c) == ~IsStyleCall(c) /\ ~IsPlanCall(c)

\* The parts of a response's first candidate, none when anything is absent.
PartsOf(resp) ==
  IF ~resp.hasCandidates \/ resp.candidates = <<>> THEN <<>>
  ELSE IF ~resp.candidates[1].hasParts THEN <<>>
  ELSE resp.candidates[1].parts

InlineAt(parts) == { i \in 1..Len(parts) : parts[i].kind = "inline" }
Least(S) == CHOOSE i \in S : \A j \in S : i <= j

RunFailed == genPromise.state = "rejected"
RunSucceeded == genPromise.state = "fulfilled"

(***************************************************************************)
(* C1. In a run with both images in which the three calls succeed and the  *)
(* third response carries an image, the orchestrator passes exactly        *)
(* analyzingStyle, analyzingPlan, generatingImage to the stage callback,   *)
(* all three before the image is passed to onResult, and passes nothing    *)
(* to the stage callback afterwards.                                       *)
(***************************************************************************)
C1_StagesThenImage ==
  \A i \in 1..Len(runLog) :
    runLog[i].ev = "result" =>
      /\ Emitted = ThreeStages
      /\ Args(SelectSeq(SubSeq(runLog, 1, i - 1),
                        LAMBDA e : e.ev = "stage" /\ e.by = "orchestrator")) = ThreeStages
      /\ \A j \in (i + 1)..Len(runLog) :
           ~(runLog[j].ev = "stage" /\ runLog[j].by = "orchestrator")

C1_Witness ==
  /\ outcome = "success"
  /\ Len(Delivered) = 1
  /\ Len(calls) = 3
  /\ floorPlanFile.present /\ referenceImageFile.present

(***************************************************************************)
(* C2. In every run of the orchestrator the stage values the consumer      *)
(* observes form a non-empty prefix of analyzingStyle, analyzingPlan,      *)
(* generatingImage followed by idle: while the run is under way they are   *)
(* a prefix of such a sequence, once it has completed or failed they are   *)
(* such a sequence and the stage is idle.                                  *)
(***************************************************************************)
RunSequences == { SubSeq(ThreeStages, 1, k) \o <<"idle">> : k \in 1..3 }

C2_ForwardOnlyThenIdle ==
  /\ outcome \in {"running", "success", "failure"} =>
       /\ Observed # <<>>
       /\ \E t \in RunSequences : IsPrefix(Observed, t)
       /\ loadingStep = Observed[Len(Observed)]
  /\ outcome \in {"success", "failure"} =>
       /\ Observed \in RunSequences
       /\ loadingStep = "idle"

C2_Witness ==
  /\ outcome = "failure"
  /\ Observed = <<"analyzingStyle", "analyzingPlan", "idle">>

(***************************************************************************)
(* C3. A run started with the floor plan or the reference image missing    *)
(* fails with the input-missing message before any network interaction:    *)
(* no generation call is issued and the stage callback is never invoked.   *)
(***************************************************************************)
C3_InputMissing ==
  (~floorPlanImage.present \/ ~referenceImage.present) =>
    /\ outcome \in {"none", "inputMissing"}
    /\ outcome = "inputMissing" =>
         error = "Please upload both a floor plan and a reference image."
    /\ calls = <<>>
    /\ inflight = {}
    /\ runLog = <<>>
    /\ loadingStep = "idle"
    /\ genPromise.state = "none"

C3_Witness ==
  /\ outcome = "inputMissing"
  /\ floorPlanImage.present /\ ~referenceImage.present
  /\ error = MsgInputMissing

(***************************************************************************)
(* C4. When the style call returns empty or absent text the run fails      *)
(* with the style-extraction error, exactly one generation call was made,  *)
(* and analyzingPlan and generatingImage are never emitted.                *)
(***************************************************************************)
C4_StyleExtractionFailed ==
  (Happened("resolve", "1") /\ styleDescription \in {Undefined, ""}) =>
    /\ RunFailed
    /\ raised = MkError("Could not extract style from reference image.")
    /\ Len(calls) = 1 /\ IsStyleCall(calls[1])
    /\ ~Happened("issue", "2") /\ ~Happened("issue", "3")
    /\ \A i \in 1..Len(Observed) : Observed[i] \notin {"analyzingPlan", "generatingImage"}
    /\ outcome = "failure" => error = "Could not extract style from reference image."

C4_Witness ==
  /\ outcome = "failure"
  /\ Happened("resolve", "1") /\ styleDescription = ""
  /\ Len(calls) = 1

(***************************************************************************)
(* C5. When the style call succeeds and the analysis call returns empty    *)
(* or absent text the run fails with the plan-analysis error, exactly two  *)
(* generation calls were made, and generatingImage is never emitted.       *)
(***************************************************************************)
C5_PlanAnalysisFailed ==
  (Happened("resolve", "2") /\ floorPlanAnalysis \in {Undefined, ""}) =>
    /\ RunFailed
    /\ raised = MkError("Could not analyze the floor plan image.")
    /\ Len(calls) = 2 /\ IsStyleCall(calls[1]) /\ IsPlanCall(calls[2])
    /\ ~Happened("issue", "3")
    /\ \A i \in 1..Len(Observed) : Observed[i] # "generatingImage"
    /\ outcome = "failure" => error = "Could not analyze the floor plan image."

C5_Witness ==
  /\ outcome = "failure"
  /\ Happened("resolve", "2") /\ floorPlanAnalysis = Undefined
  /\ styleDescription = "minimalist, oak floors"
  /\ Len(calls) = 2

(***************************************************************************)
(* C6. When the parts of the third response hold no part with inline       *)
(* binary data the run fails with the no-image error and onResult is       *)
(* never invoked, whether or not the response carries text.                *)
(***************************************************************************)
C6_NoImageProduced ==
  (Happened("resolve", "3") /\ InlineAt(PartsOf(finalResponse)) = {}) =>
    /\ RunFailed
    /\ raised = MkError("No image was generated. The model may have refused the request.")
    /\ Delivered = <<>>
    /\ generatedImage = Null
    /\ outcome = "failure" =>
         error = "No image was generated. The model may have refused the request."

C6_Witness ==
  /\ outcome = "failure"
  /\ Happened("resolve", "3")
  /\ PartsOf(finalResponse) # <<>>
  /\ \A i \in 1..Len(PartsOf(finalResponse)) : PartsOf(finalResponse)[i].kind = "text"

(***************************************************************************)
(* C7. On a failure at any step the stage is reset to idle, the value      *)
(* thrown at the failing step reaches handleGenerate unchanged, and no     *)
(* partial result is delivered: onResult is not invoked and no generated   *)
(* image is set.                                                           *)
(***************************************************************************)
C7_FailurePropagates ==
  /\ RunFailed =>
       /\ raised # NoError
       /\ genPromise.reason = raised
       /\ Delivered = <<>>
       /\ generatedImage = Null
  /\ outcome = "failure" =>
       /\ RunFailed
       /\ caught = raised
       /\ loadingStep = "idle"
       /\ error = (IF raised.kind = "Error" THEN raised.message
                   ELSE "An unknown error occurred.")

C7_Witness ==
  /\ outcome = "failure"
  /\ failedAt = "s2_call"
  /\ raised = MkError("429 quota exceeded")
  /\ caught = raised

(***************************************************************************)
(* C8. A run issues the style call, the analysis call and the image call   *)
(* in this order, each at most once and never more than three in all:      *)
(* exactly three when it succeeds, fewer when it fails before the image    *)
(* call is issued.                                                         *)
(***************************************************************************)
C8_CallCount ==
  /\ Len(calls) <= 3
  /\ Len(calls) >= 1 => IsStyleCall(calls[1])
  /\ Len(calls) >= 2 => IsPlanCall(calls[2])
  /\ Len(calls) >= 3 => IsImageCall(calls[3])
  /\ RunSucceeded => Len(calls) = 3
  /\ (RunFailed /\ failedAt \in {"s1_encode"}) => Len(calls) = 0
  /\ (RunFailed /\ failedAt \in {"s1_call", "s2_encode"}) => Len(calls) = 1
  /\ (RunFailed /\ failedAt = "s2_call") => Len(calls) = 2
  /\ (RunFailed /\ failedAt = "s3_call") => Len(calls) = 3

C8_Witness ==
  /\ outcome = "failure"
  /\ failedAt = "s2_encode"
  /\ Len(calls) = 1

(***************************************************************************)
(* C9. Within one orchestrator run and within one probe sweep at most one  *)
(* Generation Client call is in flight at any time: the call in flight is  *)
(* the one issued last, so that a call is issued only after every earlier  *)
(* call of the same run has resolved or rejected.                          *)
(***************************************************************************)
InFlightOf(owner) == { c \in inflight : c.owner = owner }

C9_SingleFlight ==
  /\ Cardinality(InFlightOf("run")) <= 1
  /\ Cardinality(InFlightOf("sweep")) <= 1
  /\ \A c \in InFlightOf("run") : c.id = Len(calls)
  /\ \A c \in InFlightOf("sweep") : c.id = Len(probeCalls)
  /\ inflight = InFlightOf("run") \cup InFlightOf("sweep")

C9_Witness ==
  /\ InFlightOf("run") = { [owner |-> "run", id |-> 3] }
  /\ InFlightOf("sweep") = { [owner |-> "sweep", id |-> 3] }
  /\ Len(results) = 1

(***************************************************************************)
(* C10. On success the string passed to onResult is built from the first   *)
(* part, in response order, that carries inline data: "data:" + its media  *)
(* type + ";base64," + its data; later inline parts are ignored and        *)
(* onResult is invoked exactly once.                                       *)
(***************************************************************************)
C10_FirstInlinePart ==
  RunSucceeded =>
    LET parts == PartsOf(finalResponse) IN
      /\ InlineAt(parts) # {}
      /\ LET p == parts[Least(InlineAt(parts))] IN
           /\ Delivered = << "data:" \o p.mimeType \o ";base64," \o p.data >>
           /\ generatedImage = "data:" \o p.mimeType \o ";base64," \o p.data

C10_Witness ==
  /\ outcome = "success"
  /\ PartsOf(finalResponse) = << TextPart("Here is your render."),
                                 InlinePart("image/jpeg", "WQ==") >>
  /\ generatedImage = "data:image/jpeg;base64,WQ=="

(***************************************************************************)
(* Vocabulary of the prober's properties.                                  *)
(***************************************************************************)
\* The sweep has returned to handleTestAllModels.
SweepDone == tpc = "idle" /\ modelTestResults.set

\* ai.models.list() resolved and every entry could be filtered.
ListingUsable ==
  /\ listed.how = "resolved"
  /\ \A i \in 1..Len(listed.listing) : listed.listing[i].hasMethods

\* The identifiers of the listed models that advertise content generation,
\* in the backend's order.
Advertises(d) == d.hasMethods /\ "generateContent" \in d.methods
CapableNames ==
  LET capable == SelectSeq(listed.listing, Advertises)
  IN [i \in 1..Len(capable) |-> capable[i].name]

\* The model identifiers of the probe calls of the sweep, in order (the
\* first request of a sweep is the listing call).
ProbedModels ==
  LET probes == SelectSeq(probeCalls, LAMBDA c : c.kind = "generateContent")
  IN [i \in 1..Len(probes) |-> probes[i].model]

ResultNames == [i \in 1..Len(results) |-> results[i].modelName]

(***************************************************************************)
(* C11. For every listing with at least one model advertising content      *)
(* generation, the sweep issues exactly one probe call per such model, in  *)
(* listing order and to no other model, and returns one result per such    *)
(* model, result i carrying the identifier of the i-th of them.            *)
(***************************************************************************)
C11_OneProbePerListedModel ==
  (SweepDone /\ ListingUsable /\ CapableNames # <<>>) =>
    /\ ProbedModels = CapableNames
    /\ modelTestResults.value = results
    /\ ResultNames = CapableNames

\* Probe i of the current sweep was settled by a rejection.
ProbeRejected(i) == probeLog[i].how = "rejected"

\* What a rejection leaves in a result's error field: the message of an
\* Error, a fixed text for any other thrown value.
RejectionText(reason) ==
  IF reason.kind = "Error" THEN reason.message ELSE "Unknown error"

(***************************************************************************)
(* C12. testAll never raises: when every generation call of a sweep        *)
(* fails, it returns a full-length sequence (one entry per listed model    *)
(* that advertises content generation) of negative results, each with an   *)
(* error string and a response time.                                       *)
(***************************************************************************)
C12_AlwaysFailingClient ==
  (/\ SweepDone /\ ListingUsable
   /\ \A i \in 1..Len(probeLog) : ProbeRejected(i)) =>
    /\ modelError = "null"
    /\ Len(modelTestResults.value) = Len(CapableNames)
    /\ \A i \in 1..Len(modelTestResults.value) :
         /\ ~modelTestResults.value[i].supportsImageGeneration
         /\ modelTestResults.value[i].error # "undefined"
         /\ modelTestResults.value[i].responseTime \in Nat

(***************************************************************************)
(* C13. testModel is total: every settled probe call, resolved or          *)
(* rejected, has produced a result for its model and the sweep goes on;    *)
(* a rejected call gives a negative result whose error field holds the     *)
(* failure's message.                                                      *)
(***************************************************************************)
C13_ProbeTotal ==
  /\ modelError = "null"
  /\ Len(results) = Len(probeLog)
  /\ \A i \in 1..Len(probeLog) :
       /\ results[i].modelName = probeLog[i].model
       /\ ProbeRejected(i) =>
            /\ ~results[i].supportsImageGeneration
            /\ results[i].error = RejectionText(probeLog[i].reason)

C13_Witness ==
  /\ tpc = "loop" /\ Len(probeLog) = 2
  /\ probeLog[1].how = "rejected"
  /\ probeLog[1].reason = [kind |-> "Error", message |-> "429 quota exceeded"]
  /\ results[1].error = "429 quota exceeded"
  /\ probeLog[2].how = "rejected" /\ probeLog[2].reason.kind = "other"
  /\ results[2].error = "Unknown error"

(***************************************************************************)
(* C14. A failing probe never aborts testAll: when the listing succeeded   *)
(* with n valid models, whichever probe calls fail, all n models are       *)
(* probed in order and n results are returned, those of the failed probes  *)
(* negative and carrying the probe's own error text.                       *)
(***************************************************************************)
C14_FailingProbeDoesNotAbort ==
  (SweepDone /\ listed.how = "resolved" /\ validModels # <<>>) =>
    /\ ProbedModels = validModels
    /\ Len(probeLog) = Len(validModels)
    /\ Len(modelTestResults.value) = Len(validModels)
    /\ \A i \in 1..Len(modelTestResults.value) :
         /\ modelTestResults.value[i].modelName = validModels[i]
         /\ (i <= Len(probeLog) /\ ProbeRejected(i)) =>
              /\ ~modelTestResults.value[i].supportsImageGeneration
              /\ modelTestResults.value[i].error = RejectionText(probeLog[i].reason)

C14_Witness ==
  /\ SweepDone /\ listed.how = "resolved"
  /\ validModels = <<"models/gemini-pro", "models/gemini-image">>
  /\ probeLog[1].how = "rejected" /\ probeLog[2].how = "resolved"
  /\ Len(modelTestResults.value) = 2
  /\ modelTestResults.value[1].error = "fetch failed"
  /\ modelTestResults.value[2].supportsImageGeneration

\* ai.models.list() rejected, or one of its entries could not be filtered.
ListingFailed ==
  \/ listed.how = "rejected"
  \/ listed.how = "resolved" /\ ~ListingUsable

\* The listing was filtered and held no model advertising content generation.
NoneCapable == ListingUsable /\ CapableNames = <<>>

(***************************************************************************)
(* C15. When listModels yields only a diagnostic (no capable model, or a   *)
(* listing failure), testAll returns the empty sequence and issues no      *)
(* probe call.                                                             *)
(***************************************************************************)
C15_DiagnosticOnlyNoProbes ==
  (SweepDone /\ (NoneCapable \/ ListingFailed)) =>
    /\ modelTestResults.value = <<>>
    /\ ProbedModels = <<>>

(***************************************************************************)
(* C16. When the listing succeeds with at least one capable model,         *)
(* listModels returns exactly the identifiers of the models advertising    *)
(* content generation, in the backend's order.                             *)
(***************************************************************************)
C16_CapableInBackendOrder ==
  (ListingUsable /\ CapableNames # <<>>) => models = CapableNames

C16_Witness ==
  /\ listed.how = "resolved"
  /\ ListingUsable
  /\ [i \in 1..Len(listed.listing) |-> listed.listing[i].name]
       = <<"models/gemini-pro", "models/gemini-image">>
  /\ models = <<"models/gemini-pro", "models/gemini-image">>

(***************************************************************************)
(* C17. When the listing succeeds and no listed model advertises content   *)
(* generation, listModels returns one sentinel string beginning with       *)
(* "No models"; listModels never returns the empty sequence.               *)
(***************************************************************************)
C17_SentinelWhenNoneCapable ==
  /\ NoneCapable =>
       /\ Len(models) = 1
       /\ SubSeq(models[1], 1, 9) = "No models"
       /\ models[1] = "No models supporting 'generateContent' found for your API key."
  /\ listed.how # "none" => models # <<>>

C17_Witness ==
  /\ listed.how = "resolved"
  /\ Len(listed.listing) = 1 /\ listed.listing[1].name = "models/embedding"
  /\ models = <<"No models supporting 'generateContent' found for your API key.">>

(***************************************************************************)
(* C18. listModels never raises: a failure of the listing operation, or of *)
(* the filtering of its entries, is returned as a sequence of exactly one  *)
(* diagnostic string, with no model identifier beside it.                  *)
(***************************************************************************)
C18_ListingFailureIsOneDiagnostic ==
  ListingFailed =>
    /\ tpc \notin {"idle", "list_wait"} \/ SweepDone
    /\ modelError = "null"
    /\ Len(models) = 1
    /\ \A i \in 1..Len(listed.listing) : models[1] # listed.listing[i].name
    /\ models[1] =
         IF listed.how = "resolved"
           THEN "Error listing models: Cannot read properties of undefined (reading 'includes')"
         ELSE IF listed.reason.kind = "Error"
           THEN "Error listing models: " \o listed.reason.message
         ELSE "An unknown error occurred while listing models."

C18_Witness ==
  /\ listed.how = "resolved"
  /\ Len(listed.listing) = 2
  /\ listed.listing[1].name = "models/gemini-image"
  /\ ~listed.listing[2].hasMethods
  /\ models =
       <<"Error listing models: Cannot read properties of undefined (reading 'includes')">>

(***************************************************************************)
(* C19. Every probe result, of a resolved and of a rejected call alike,    *)
(* carries the time elapsed from the clock reading taken just before the   *)
(* call to its resolution or rejection, which is never negative.           *)
(***************************************************************************)
C19_ElapsedAlwaysRecorded ==
  \A i \in 1..Len(results) :
    /\ i <= Len(probeLog)
    /\ results[i].responseTime = probeLog[i].settledAt - probeLog[i].issuedAt
    /\ results[i].responseTime >= 0

C19_Witness ==
  /\ Len(results) = 2
  /\ probeLog[1].how = "rejected" /\ probeLog[1].issuedAt = 0 /\ probeLog[1].settledAt = 1
  /\ results[1].responseTime = 1
  /\ probeLog[2].how = "resolved" /\ probeLog[2].issuedAt = 1 /\ probeLog[2].settledAt = 2
  /\ results[2].responseTime = 1

(***************************************************************************)
(* C20. testModel issues exactly one generation call, to the model it was  *)
(* given; its result names that model and is positive exactly when the     *)
(* call resolved with a response whose content parts hold at least one     *)
(* inline payload.                                                         *)
(***************************************************************************)
C20_OneCallPositiveIffInline ==
  /\ Len(probeCalls) = 1 + Len(probeLog) + (IF tpc = "probe_wait" THEN 1 ELSE 0)
       \/ probeCalls = <<>>
  /\ \A i \in 1..Len(probeLog) :
       /\ probeCalls[i + 1].kind = "generateContent"
       /\ probeCalls[i + 1].model = probeLog[i].model
       /\ results[i].modelName = probeLog[i].model
       /\ results[i].supportsImageGeneration <=>
            /\ probeLog[i].how = "resolved"
            /\ InlineAt(PartsOf(probeLog[i].response)) # {}

C20_Witness ==
  /\ Len(probeLog) = 2 /\ Len(probeCalls) = 3
  /\ probeLog[1].how = "resolved"
  /\ InlineAt(PartsOf(probeLog[1].response)) = {}
  /\ Len(PartsOf(probeLog[1].response)) = 1
  /\ ~results[1].supportsImageGeneration
  /\ probeLog[2].how = "resolved"
  /\ InlineAt(PartsOf(probeLog[2].response)) = {2}
  /\ results[2].supportsImageGeneration
  /\ results[2].modelName = probeCalls[3].model

\* Probes i and j of the sweep addressed the same model and the client
\* answered both in the same way.
SameOutcome(i, j) ==
  /\ probeLog[i].model = probeLog[j].model
  /\ probeLog[i].how = probeLog[j].how
  /\ probeLog[i].response = probeLog[j].response
  /\ probeLog[i].reason = probeLog[j].reason

Positive == { i \in 1..Len(modelTestResults.value) :
                modelTestResults.value[i].supportsImageGeneration }

(***************************************************************************)
(* C22. The model reported as best is the first entry of the result        *)
(* sequence, in listing order, with supportsImageGeneration = true,        *)
(* whatever the response times; it is reported only when such an entry     *)
(* exists.                                                                 *)
(***************************************************************************)
C22_BestIsFirstPositive ==
  /\ BestModelShown(modelTestResults) <=> (modelTestResults.set /\ Positive # {})
  /\ BestModelShown(modelTestResults) =>
       BestModelName(modelTestResults) = modelTestResults.value[Least(Positive)].modelName

C22_Witness ==
  /\ SweepDone
  /\ Positive = {1, 2}
  /\ modelTestResults.value[1].modelName = "models/gemini-pro"
  /\ modelTestResults.value[2].modelName = "models/gemini-image"
  /\ modelTestResults.value[1].responseTime > modelTestResults.value[2].responseTime
  /\ BestModelShown(modelTestResults)
  /\ BestModelName(modelTestResults) = "models/gemini-pro"

\* The strings listModels returns in place of identifiers: the sentinel for
\* no capable model, and the two texts of its catch block.
IsDiagnostic(name) ==
  \/ name = "No models supporting 'generateContent' found for your API key."
  \/ name = "An unknown error occurred while listing models."
  \/ (Len(name) >= 22 /\ SubSeq(name, 1, 22) = "Error listing models: ")

(***************************************************************************)
(* C23. Every diagnostic string that listModels can return is recognised   *)
(* by testAll's prefix filter: no probe call is ever addressed to a        *)
(* diagnostic string.                                                      *)
(***************************************************************************)
C23_DiagnosticsNeverProbed ==
  /\ \A i \in 1..Len(validModels) : ~IsDiagnostic(validModels[i])
  /\ \A i \in 1..Len(probeCalls) : ~IsDiagnostic(probeCalls[i].model)

\* A text a stage may hand on to the next one.
NonEmptyText(t) == t # "undefined" /\ t # ""

(***************************************************************************)
(* C24. The stage-3 request is issued only when the style text of stage 1  *)
(* and the analysis text of stage 2 of the same run are both non-empty;    *)
(* it holds the encoded floor-plan image, the same payload as in stage 2,  *)
(* followed by the template applied to those two texts in the order        *)
(* (style, analysis).                                                      *)
(***************************************************************************)
C24_FinalRequestContent ==
  \A k \in 1..Len(calls) :
    calls[k].stage = 3 =>
      /\ k = 3
      /\ NonEmptyText(styleDescription) /\ NonEmptyText(floorPlanAnalysis)
      /\ Len(calls[k].parts) = 2
      /\ calls[k].parts[1] = calls[2].parts[2]
      /\ calls[k].parts[1].kind = "inline"
      /\ calls[k].parts[1].mimeType = floorPlanFile.type
      /\ calls[k].parts[2].kind = "text"
      /\ calls[k].parts[2].text =
           "<style_guide>" \o styleDescription \o "</style_guide><architectural_plan>"
             \o floorPlanAnalysis \o "</architectural_plan>"

C24_Witness ==
  /\ gpc = "s3_call" /\ Len(calls) = 3
  /\ styleDescription = "minimalist, oak floors"
  /\ floorPlanAnalysis = "2-bedroom, L-shaped"
  /\ calls[3].parts[1].data = "cGxhbg=="
  /\ calls[3].parts[2].text =
       "<style_guide>minimalist, oak floors</style_guide><architectural_plan>2-bedroom, L-shaped</architectural_plan>"

\* The stage values emitted so far in the run, oldest first.
StagesEmitted == SelectSeq(runLog, LAMBDA e : e.ev = "stage")

\* The stage value that announces step n.
StageNamed(n) ==
  CASE n = 1 -> "analyzingStyle" [] n = 2 -> "analyzingPlan" [] n = 3 -> "generatingImage"

\* How the log names the call of step n.
StepLabel(n) == CASE n = 1 -> "1" [] n = 2 -> "2" [] n = 3 -> "3"

(***************************************************************************)
(* C25. Each stage is emitted before its outbound call is issued: while    *)
(* the call of stage n is in flight, the stage value emitted last is the   *)
(* one of stage n.                                                         *)
(***************************************************************************)
C25_StageEmittedBeforeCall ==
  \A c \in InFlightOf("run") :
    /\ c.id \in 1..Len(calls)
    /\ StagesEmitted # <<>>
    /\ StagesEmitted[Len(StagesEmitted)].arg = StageNamed(calls[c.id].stage)
    /\ loadingStep = StageNamed(calls[c.id].stage)
    /\ Len(StagesEmitted) = calls[c.id].stage
    /\ \A i \in 1..Len(runLog) :
         (runLog[i].ev = "issue" /\ runLog[i].arg = StepLabel(calls[c.id].stage)) =>
           \E j \in 1..(i - 1) :
             /\ runLog[j].ev = "stage"
             /\ runLog[j].arg = StageNamed(calls[c.id].stage)
             /\ \A k \in (j + 1)..(i - 1) : runLog[k].ev # "stage"

C25_Witness ==
  /\ InFlightOf("run") = {[owner |-> "run", id |-> 2]}
  /\ calls[2].stage = 2
  /\ loadingStep = "analyzingPlan"
  /\ Len(StagesEmitted) = 2
  /\ StagesEmitted[2].arg = "analyzingPlan"

\* handleGenerate has returned from a run that was started with both images.
RunCompleted ==
  /\ outcome \in {"success", "failure"}
  /\ hpc = "idle"
  /\ loadingStep = "idle"
  /\ generatedImage # "null" \/ error # "null"

(***************************************************************************)
(* C26. Once a run with both images has begun, and provided every          *)
(* outbound call and every encoding eventually resolves or rejects, the    *)
(* run eventually completes: the stage is back to idle with a generated    *)
(* image delivered or an error reported.                                   *)
(***************************************************************************)
C26_RunEventuallyCompletes == (outcome = "running") ~> RunCompleted

C26_Witness ==
  /\ RunCompleted
  /\ outcome = "failure"
  /\ failedAt = "s3_call"
  /\ error = "No image was generated. The model may have refused the request."
  /\ generatedImage = "null"

\* A sweep is under way: handleTestAllModels has not yet got its results.
SweepRunning == tpc # "idle"

(***************************************************************************)
(* C27. Once testAll has begun, and provided every outbound call           *)
(* eventually resolves or rejects, it eventually completes and returns     *)
(* its result sequence; no result is exposed to the consumer before the    *)
(* sweep is complete.                                                      *)
(***************************************************************************)
C27_SweepEventuallyCompletes ==
  /\ [](SweepRunning => (isTestingModels /\ ~modelTestResults.set))
  /\ SweepRunning ~> (SweepDone /\ ~isTestingModels)

C27_Witness ==
  /\ SweepDone /\ ~isTestingModels
  /\ Len(modelTestResults.value) = 2
  /\ modelTestResults.value = results
  /\ Len(probeLog) = 2

(***************************************************************************)
(* C28. In every probe result a positive verdict and an error message      *)
(* exclude each other: a result with supportsImageGeneration = true has    *)
(* no error, and every result with supportsImageGeneration = false has a   *)
(* non-empty error string.                                                 *)
(***************************************************************************)
C28_VerdictXorError ==
  \A i \in 1..Len(results) :
    /\ results[i].supportsImageGeneration => results[i].error = "undefined"
    /\ ~results[i].supportsImageGeneration =>
         (results[i].error # "undefined" /\ results[i].error # "")

\* The handleCheckModels invocation that returned last got a diagnostic
\* from listModels: the listing failed, or held no capable model.
CheckGotDiagnostic ==
  \/ checkListed.how = "rejected"
  \/ /\ checkListed.how = "resolved"
     /\ \/ \E i \in 1..Len(checkListed.listing) : ~checkListed.listing[i].hasMethods
        \/ \A i \in 1..Len(checkListed.listing) :
             "generateContent" \notin checkListed.listing[i].methods

(***************************************************************************)
(* C29. After handleCheckModels completes, a diagnostic returned by        *)
(* listModels is never stored in availableModels and shown as a listed     *)
(* model: whenever listModels returned a diagnostic, availableModels is    *)
(* null and modelError is set.                                             *)
(***************************************************************************)
C29_DiagnosticNotListedAsModel ==
  CheckGotDiagnostic =>
    /\ ~availableModels.set
    /\ modelError # "null"

\* A generateVirtualStaging run is in flight: its promise is not settled.
RunInFlight == genPromise.state = "pending"

C31_NothingShownWhileLoading ==
  loadingStep # "idle" => (error = "null" /\ generatedImage = "null")

C31_Witness ==
  /\ loadingStep = "generatingImage"
  /\ gpc = "s3_call"
  /\ error = "null" /\ generatedImage = "null"
  /\ floorPlanImage.present /\ referenceImage.present

(***************************************************************************)
(* C32. After any sequence of uploads and runs, error and generatedImage   *)
(* are never both non-null: what is displayed is the image of the last     *)
(* successful run or the error of the last failed attempt, never a stale   *)
(* image beside a newer error.                                             *)
(***************************************************************************)
C32_ImageXorError ==
  /\ ~(error # "null" /\ generatedImage # "null")
  /\ outcome = "success" => (generatedImage # "null" /\ error = "null")
  /\ outcome \in {"failure", "inputMissing"} =>
       (error # "null" /\ generatedImage = "null")

C32_Witness ==
  /\ outcome = "failure"
  /\ loadingStep = "idle"
  /\ error = "fetch failed"
  /\ generatedImage = "null"
  /\ failedAt = "s1_call"

(***************************************************************************)
(* C33. isTestingModels is true from the start of handleTestAllModels      *)
(* until its testAll call has settled and false afterwards; as the Test    *)
(* button is disabled while it is true, at most one sweep started from     *)
(* the App is in flight: a sweep under way is never restarted, its         *)
(* requests only grow and at most one of them is in flight.                *)
(***************************************************************************)
C33_OneSweepAtATime ==
  [][ /\ SweepRunning <=> isTestingModels
      /\ SweepRunning' <=> isTestingModels'
      /\ (~SweepRunning /\ SweepRunning') => probeCalls' = <<[kind |-> "list", model |-> "", parts |-> <<>>]>>
      /\ (SweepRunning /\ SweepRunning') => IsPrefix(probeCalls, probeCalls')
      /\ (SweepRunning /\ ~SweepRunning') => (modelTestResults'.set /\ probeCalls' = probeCalls)
      /\ Cardinality(InFlightOf("sweep")') <= 1 ]_vars

C33_Witness ==
  /\ tpc = "probe_wait"
  /\ isTestingModels
  /\ Len(probeCalls) = 3
  /\ Cardinality(InFlightOf("sweep")) = 1
  /\ ~ENABLED HandleTestAllModels
  /\ ENABLED ProbeReject

\* A step of the model tools (lister, prober and their handlers) and a
\* step of the generation workflow (uploads, handleGenerate, orchestrator),
\* each recognised by the state only it owns.
ToolStep ==
  \/ tpc' # tpc \/ clock' # clock \/ probeCalls' # probeCalls \/ probeLog' # probeLog
  \/ checksPending' # checksPending \/ checkListed' # checkListed
GenerationStep ==
  \/ hpc' # hpc \/ gpc' # gpc \/ calls' # calls \/ runLog' # runLog
  \/ floorPlanImage' # floorPlanImage \/ referenceImage' # referenceImage
  \/ outcome' # outcome

\* The stage values the orchestrator has emitted in the run, oldest first.
OrchestratorStages ==
  LET emitted == SelectSeq(runLog, LAMBDA e : e.ev = "stage" /\ e.by = "orchestrator")
  IN [i \in 1..Len(emitted) |-> emitted[i].arg]

C35_ImageTestsAgree ==
  (probed # <<>> /\ scanned # <<>>) =>
    /\ probed[1].supportsImageGeneration <=> scanned[1].delivered
    /\ scanned[1].delivered \/ scanned[1].thrown = MkError(MsgNoImageProduced)
    /\ scanned[1].delivered => StartsWith(scanned[1].result, "data:")

C35_Witness ==
  /\ probed # <<>> /\ scanned # <<>>
  /\ Len(ContentParts(response)) = 2
  /\ ContentParts(response)[1].kind = "text"
  /\ probed[1].supportsImageGeneration /\ scanned[1].delivered

====
